---- MODULE Spec2Model ----
(***************************************************************************)
(* Model of magnumopus: in-silico PCR (scripts/ispcr.py) and the amplicon  *)
(* collection / orientation loops of magop.py:main.                        *)
(*                                                                         *)
(* Text is modelled as a sequence of one-character strings, so that        *)
(* str.split, str.split("\n"), int() and string comparison are computed    *)
(* as Python computes them.  Python's 0-based index k is index k+1 here.   *)
(***************************************************************************)
EXTENDS Integers, Sequences, FiniteSets, TLC

VARIABLES
    pc,              \* position of the program
    blast_lines,     \* the aligner's records, one raw line each (find_annealing)
    blast_output,    \* the aligner's stdout: blast_lines joined by "\n"
    good_hits,       \* filter_blast's result
    sorted_hits,     \* step_one's result
    max_amp_size,    \* ispcr's max_amplicon_size
    hit_pairs,       \* identify_paired_hits' result
    bed,             \* get_amplicons' windows, in order
    assemblies,      \* main: per template, the text ispcr returns for it
    k,               \* main: index of the loop in progress
    amps_list,       \* main: amps_list
    final_amplicons, \* main: final_amplicons
    printed          \* main: what was written to stdout, in order

vars == <<pc, blast_lines, blast_output, good_hits, sorted_hits, max_amp_size,
          hit_pairs, bed, assemblies, k, amps_list, final_amplicons, printed>>

-----------------------------------------------------------------------------
(* Python strings *)

NL  == "\n"
TAB == "\t"
SP  == " "

\* str.isspace() for the characters a line can hold
IsSpace(c) == c \in {" ", "\t", "\n", "\r"}

\* ord(c), for the characters compared by the sort
Ord(c) ==
    CASE c = "0" -> 48 [] c = "1" -> 49 [] c = "2" -> 50 [] c = "3" -> 51
      [] c = "4" -> 52 [] c = "5" -> 53 [] c = "6" -> 54 [] c = "7" -> 55
      [] c = "8" -> 56 [] c = "9" -> 57 [] c = "A" -> 65 [] c = "C" -> 67
      [] c = "G" -> 71 [] c = "N" -> 78 [] c = "T" -> 84 [] c = "p" -> 112
      [] OTHER -> 0

\* s < t for Python strings: lexicographic by code point, a proper prefix first
RECURSIVE StrLessFrom(_, _, _)
StrLessFrom(s, t, n) ==
    IF n > Len(t) THEN FALSE
    ELSE IF n > Len(s) THEN TRUE
    ELSE IF Ord(s[n]) # Ord(t[n]) THEN Ord(s[n]) < Ord(t[n])
    ELSE StrLessFrom(s, t, n + 1)

StrLess(s, t) == StrLessFrom(s, t, 1)

\* int(s) for a string of decimal digits
RECURSIVE IntFrom(_, _, _)
IntFrom(s, n, acc) ==
    IF n > Len(s) THEN acc ELSE IntFrom(s, n + 1, acc * 10 + (Ord(s[n]) - 48))

int(s) == IntFrom(s, 1, 0)

\* the n-th smallest element of the set P of positions
Nth(P, n) == CHOOSE p \in P : Cardinality({q \in P : q <= p}) = n

\* s.split(sep) for a one-character sep: every separator cuts, empty pieces kept
SplitOn(s, sep) ==
    LET cuts == {i \in 1..Len(s) : s[i] = sep}
        from(n) == IF n = 1 THEN 1 ELSE Nth(cuts, n - 1) + 1
        to(n)   == IF n = Cardinality(cuts) + 1 THEN Len(s) ELSE Nth(cuts, n) - 1
    IN  [n \in 1..(Cardinality(cuts) + 1) |-> SubSeq(s, from(n), to(n))]

\* s.split(): cut at runs of whitespace, no empty pieces
RECURSIVE SplitWsFrom(_, _, _, _)
SplitWsFrom(s, n, cur, acc) ==
    IF n > Len(s) THEN (IF cur = <<>> THEN acc ELSE Append(acc, cur))
    ELSE IF IsSpace(s[n])
         THEN SplitWsFrom(s, n + 1, <<>>, IF cur = <<>> THEN acc ELSE Append(acc, cur))
         ELSE SplitWsFrom(s, n + 1, Append(cur, s[n]), acc)

SplitWs(s) == SplitWsFrom(s, 1, <<>>, <<>>)

\* sep.join(parts)
RECURSIVE JoinFrom(_, _, _, _)
JoinFrom(parts, sep, n, acc) ==
    IF n > Len(parts) THEN acc
    ELSE JoinFrom(parts, sep, n + 1, (IF n = 1 THEN acc ELSE Append(acc, sep)) \o parts[n])

Join(parts, sep) == JoinFrom(parts, sep, 1, <<>>)

-----------------------------------------------------------------------------
(* The aligner's output: "6 std qlen", 13 whitespace-delimited columns *)

NumFields == 13

\* str(n) for n >= 0
RECURSIVE DecFrom(_, _)
DecFrom(n, acc) ==
    LET d == <<"0", "1", "2", "3", "4", "5", "6", "7", "8", "9">>[(n % 10) + 1]
    IN  IF n < 10 THEN <<d>> \o acc ELSE DecFrom(n \div 10, <<d>> \o acc)

Dec(n) == DecFrom(n, <<>>)

\* one record: qseqid sseqid pident length mismatch gapopen qstart qend
\*             sstart send evalue bitscore qlen
Cols(sid, alen, sstart, send, qlen) ==
    << <<"p">>, sid, <<"9">>, Dec(alen), <<"0">>, <<"0">>, <<"1">>, Dec(alen),
       Dec(sstart), Dec(send), <<"0">>, <<"4">>, Dec(qlen) >>

-----------------------------------------------------------------------------
(* ispcr.py *)

\* filter_blast, from line n on: an empty line is skipped; cols[3] or cols[12]
\* of a shorter line raises IndexError, which ends the call
RECURSIVE FilterFrom(_, _, _)
FilterFrom(lines, n, acc) ==
    IF n > Len(lines) THEN [error |-> "none", hits |-> acc]
    ELSE IF Len(lines[n]) = 0 THEN FilterFrom(lines, n + 1, acc)
    ELSE LET cols == SplitWs(lines[n])
         IN  IF Len(cols) < 4 \/ Len(cols) < NumFields
             THEN [error |-> "IndexError", hits |-> <<>>]
             ELSE IF cols[4] # cols[NumFields]
                  THEN FilterFrom(lines, n + 1, acc)
                  ELSE FilterFrom(lines, n + 1, Append(acc, cols))

\* filter_blast with the len(line) == 0 test lost
RECURSIVE FilterFromNoSkip(_, _, _)
FilterFromNoSkip(lines, n, acc) ==
    IF n > Len(lines) THEN [error |-> "none", hits |-> acc]
    ELSE LET cols == SplitWs(lines[n])
         IN  IF Len(cols) < 4 \/ Len(cols) < NumFields
             THEN [error |-> "IndexError", hits |-> <<>>]
             ELSE IF cols[4] # cols[NumFields]
                  THEN FilterFromNoSkip(lines, n + 1, acc)
                  ELSE FilterFromNoSkip(lines, n + 1, Append(acc, cols))

filter_blast_noskip(text) == FilterFromNoSkip(SplitOn(text, NL), 1, <<>>)

filter_blast(text) == FilterFrom(SplitOn(text, NL), 1, <<>>)

\* the sort key of step_one compared as strings: (x[1], x[8])
KeyLessStr(a, b) ==
    \/ StrLess(a[2], b[2])
    \/ a[2] = b[2] /\ StrLess(a[9], b[9])

\* the sort key of step_one without the start coordinate: x[1]
KeyLessIdOnly(a, b) == StrLess(a[2], b[2])

\* key(a) < key(b) for key = lambda x: (x[1], int(x[8]))
KeyLess(a, b) ==
    \/ StrLess(a[2], b[2])
    \/ a[2] = b[2] /\ int(a[9]) < int(b[9])

\* x put into the sorted s behind every element whose key is not greater
RECURSIVE InsertFrom(_, _, _)
InsertFrom(x, s, n) ==
    IF n > Len(s) THEN Append(s, x)
    ELSE IF KeyLess(x, s[n])
         THEN SubSeq(s, 1, n - 1) \o <<x>> \o SubSeq(s, n, Len(s))
         ELSE InsertFrom(x, s, n + 1)

RECURSIVE SortFrom(_, _, _)
SortFrom(s, n, acc) ==
    IF n > Len(s) THEN acc ELSE SortFrom(s, n + 1, InsertFrom(s[n], acc, 1))

\* sorted(good_hits, key=...): a stable sort
sorted(hits) == SortFrom(hits, 1, <<>>)

\* "fwd" if start < stop else "rev"
Dir(hit) == IF int(hit[9]) < int(hit[10]) THEN "fwd" ELSE "rev"

\* the body of the j loop of identify_paired_hits for one (a_hit, b_hit):
\* "continue" without a pair, "break", or "append" the pair (a_hit, b_hit)
PairStep(a_hit, b_hit, max) ==
    LET a_start == int(a_hit[9])
        a_stop  == int(a_hit[10])
        b_start == int(b_hit[9])
        b_stop  == int(b_hit[10])
    IN  IF a_hit[2] # b_hit[2] THEN "continue"
        ELSE IF Dir(a_hit) = Dir(b_hit) THEN "continue"
        ELSE IF a_start < b_start
             THEN IF ~(Dir(a_hit) = "fwd") THEN "continue"
                  ELSE IF ~(a_stop > b_start - max) THEN "break"
                  ELSE "append"
        ELSE IF ~(Dir(b_hit) = "fwd") THEN "continue"
        ELSE IF ~(b_stop > a_start - max) THEN "continue"
        ELSE "append"

\* for j in range(i+1, len(good_hits))
RECURSIVE InnerLoop(_, _, _, _, _)
InnerLoop(hits, i, j, max, pairs) ==
    IF j > Len(hits) THEN pairs
    ELSE LET step == PairStep(hits[i], hits[j], max)
         IN  IF step = "break" THEN pairs
             ELSE IF step = "append"
                  THEN InnerLoop(hits, i, j + 1, max, Append(pairs, <<hits[i], hits[j]>>))
                  ELSE InnerLoop(hits, i, j + 1, max, pairs)

\* for i in range(len(good_hits)-1)
RECURSIVE OuterLoop(_, _, _, _)
OuterLoop(hits, i, max, pairs) ==
    IF i > Len(hits) - 1 THEN pairs
    ELSE OuterLoop(hits, i + 1, max, InnerLoop(hits, i, i + 1, max, pairs))

identify_paired_hits(hits, max) == OuterLoop(hits, 1, max, <<>>)

\* get_amplicons' bed line with end = int(r_hit[9])
BedLineNoMinus(pair) ==
    LET f_hit  == pair[1]
        r_hit  == pair[2]
        contig == f_hit[2]
        start  == int(f_hit[10])
        end    == int(r_hit[10])
    IN  contig \o <<TAB>> \o Dec(start) \o <<TAB>> \o Dec(end) \o <<NL>>

\* get_amplicons' bed line of one pair: contig \t start \t end \n
BedLine(pair) ==
    LET f_hit  == pair[1]
        r_hit  == pair[2]
        contig == f_hit[2]
        start  == int(f_hit[10])
        end    == int(r_hit[10]) - 1
    IN  contig \o <<TAB>> \o Dec(start) \o <<TAB>> \o Dec(end) \o <<NL>>

\* the bed list of get_amplicons
get_amplicons_bed(pairs) == [n \in 1..Len(pairs) |-> BedLine(pairs[n])]

-----------------------------------------------------------------------------
(* ispcr(primer_file, assembly_file, max_amplicon_size) as a state machine *)

MaxLines     == 3    \* records of a report with malformed lines
MaxPairHits  == 2    \* records of a report over the wide coordinate range
MaxCoord     == 4    \* the wide coordinate range is 1..MaxCoord
MaxHits      == 3    \* records of a report over the narrow coordinate range
MaxScanCoord == 3    \* the narrow coordinate range is 1..MaxScanCoord

\* main calls ispcr(args.primers, assembly, 2000)
DefaultMaxAmp == 2000

C1  == <<"C", "1">>
C2  == <<"C", "2">>
C10 == <<"C", "1", "0">>

\* the aligner writes one record per line, columns separated by tabs
LineOf(cols) == Join(cols, TAB)

\* a full-length hit of a primer on sid from s to e
HitLine(sid, s, e) ==
    LET len == IF s < e THEN e - s + 1 ELSE s - e + 1
    IN  LineOf(Cols(sid, len, s, e, len))

\* report lines: full-length and partial hits of a 20-mer, columns separated
\* by tabs or by blanks, and lines that are empty, blank or cut short
WellFormedLines ==
    { LineOf(Cols(C2, 20, 9, 28, 20)),
      LineOf(Cols(C2, 20, 10, 29, 20)),
      LineOf(Cols(C10, 20, 9, 28, 20)),
      LineOf(Cols(C2, 18, 9, 26, 20)),
      <<SP>> \o Join(Cols(C10, 20, 10, 29, 20), SP) }

ShortLines ==
    { <<SP>>,
      LineOf(SubSeq(Cols(C2, 20, 9, 28, 20), 1, NumFields - 1)),
      LineOf(SubSeq(Cols(C2, 20, 9, 28, 20), 1, 3)) }

LinePool == WellFormedLines \cup ShortLines \cup {<<>>}

\* hits of the spec's scenario: forward 10..30 and reverse 200..180 on C1
ScenarioLines == { HitLine(C1, 10, 30), HitLine(C1, 200, 180) }

WidePool == { HitLine(C1, s, e) : s \in 1..MaxCoord, e \in 1..MaxCoord }

\* hits of primers of one or two bases on C1, and one hit on another contig
NarrowPool ==
    { HitLine(C1, s, e) :
        <<s, e>> \in { c \in (1..MaxScanCoord) \X (1..MaxScanCoord) :
                         c[2] \in {c[1] - 1, c[1], c[1] + 1} } }
    \cup { HitLine(C2, 1, 2) }

SeqsUpTo(S, n) == UNION { [1..m -> S] : m \in 0..n }

\* a run of ispcr: the lines of the aligner's report and max_amplicon_size
Reports ==
    [lines : SeqsUpTo(LinePool, MaxLines), max : {DefaultMaxAmp}]
    \cup [lines : SeqsUpTo(ScenarioLines, MaxPairHits), max : {DefaultMaxAmp}]
    \cup [lines : SeqsUpTo(WidePool, MaxPairHits), max : {1, 2}]
    \cup [lines : SeqsUpTo(NarrowPool, MaxHits), max : {1}]

InitIspcr ==
    /\ \E r \in Reports :
          /\ blast_lines = r.lines
          /\ blast_output = Join(r.lines, NL)
          /\ max_amp_size = r.max
    /\ pc = "filter_blast"
    /\ good_hits = <<>>
    /\ sorted_hits = <<>>
    /\ hit_pairs = <<>>
    /\ bed = <<>>
    /\ assemblies = <<>>
    /\ k = 0
    /\ amps_list = <<>>
    /\ final_amplicons = <<>>
    /\ printed = <<>>

\* step_one, line 11: good_hits = filter_blast(hits)
FilterBlast ==
    /\ pc = "filter_blast"
    /\ LET r == filter_blast(blast_output)
       IN  /\ good_hits' = r.hits
           /\ pc' = IF r.error = "none" THEN "sorted" ELSE r.error
    /\ UNCHANGED <<blast_lines, blast_output, sorted_hits, max_amp_size, hit_pairs,
                   bed, assemblies, k, amps_list, final_amplicons, printed>>

\* step_one, line 12: sorted_hits = sorted(good_hits, key=...)
SortHits ==
    /\ pc = "sorted"
    /\ sorted_hits' = sorted(good_hits)
    /\ pc' = "step_two"
    /\ UNCHANGED <<blast_lines, blast_output, good_hits, max_amp_size, hit_pairs,
                   bed, assemblies, k, amps_list, final_amplicons, printed>>

\* step_two: hit_pairs = identify_paired_hits(sorted_hits, max_amplicon_size)
StepTwo ==
    /\ pc = "step_two"
    /\ hit_pairs' = identify_paired_hits(sorted_hits, max_amp_size)
    /\ pc' = "step_three"
    /\ UNCHANGED <<blast_lines, blast_output, good_hits, sorted_hits, max_amp_size,
                   bed, assemblies, k, amps_list, final_amplicons, printed>>

\* step_three: get_amplicons builds the bed list it hands to seqtk
StepThree ==
    /\ pc = "step_three"
    /\ bed' = get_amplicons_bed(hit_pairs)
    /\ pc' = "seqtk"
    /\ UNCHANGED <<blast_lines, blast_output, good_hits, sorted_hits, max_amp_size,
                   hit_pairs, assemblies, k, amps_list, final_amplicons, printed>>

NextIspcr == FilterBlast \/ SortHits \/ StepTwo \/ StepThree

SpecIspcr == InitIspcr /\ [][NextIspcr]_vars

-----------------------------------------------------------------------------
(* scripts/nw.py: the score of needleman_wunsch(a, b, match, mismatch, gap) *)

Max2(x, y) == IF x >= y THEN x ELSE y

\* row i of the table from row i-1: S[i][0] = i*gap, then the recurrence
RECURSIVE NWRowFrom(_, _, _, _, _, _, _, _)
NWRowFrom(prev, ai, b, j, match, mismatch, gap, row) ==
    IF j > Len(b) THEN row
    ELSE LET diag == prev[j] + (IF ai = b[j] THEN match ELSE mismatch)
             up   == prev[j + 1] + gap
             left == row[j] + gap
         IN  NWRowFrom(prev, ai, b, j + 1, match, mismatch, gap,
                       Append(row, Max2(diag, Max2(up, left))))

RECURSIVE NWRowsFrom(_, _, _, _, _, _, _)
NWRowsFrom(a, b, i, match, mismatch, gap, prev) ==
    IF i > Len(a) THEN prev
    ELSE NWRowsFrom(a, b, i + 1, match, mismatch, gap,
                    NWRowFrom(prev, a[i], b, 1, match, mismatch, gap, <<prev[1] + gap>>))

\* S[m][n]
needleman_wunsch_score(a, b, match, mismatch, gap) ==
    NWRowsFrom(a, b, 1, match, mismatch, gap,
               [j \in 1..(Len(b) + 1) |-> (j - 1) * gap])[Len(b) + 1]

-----------------------------------------------------------------------------
(* magop.py: main *)

match    == 1
mismatch == -1
gap      == -1

Bases == {"A", "C", "G", "T"}

\* base_complements[nuc]
base_complements(nuc) ==
    CASE nuc = "A" -> "T" [] nuc = "C" -> "G" [] nuc = "G" -> "C" [] nuc = "T" -> "A"

\* ''.join([base_complements[nuc] for nuc in reversed(amplicon_2)])
reverse_complement(seq) ==
    [n \in 1..Len(seq) |-> base_complements(seq[Len(seq) + 1 - n])]

\* line 111: the first two lines of the text ispcr returned; [1] of a text
\* without a newline raises IndexError
FirstRecord(amps) ==
    LET parts == SplitOn(amps, NL)
    IN  IF Len(parts) < 2 THEN [error |-> "IndexError", amp |-> <<>>]
        ELSE [error |-> "none", amp |-> parts[1] \o <<NL>> \o parts[2] \o <<NL>>]

\* amp.split('\n')[1], for an entry of amps_list
SeqLine(amp) == SplitOn(amp, NL)[2]

\* the body of the orientation loop with the comparison turned round
OrientSwapped(anchor, amp) ==
    LET amplicon_2 == SeqLine(amp)
    IN  IF \E n \in 1..Len(amplicon_2) : amplicon_2[n] \notin Bases
        THEN [error |-> "KeyError", amp |-> <<>>]
        ELSE LET score    == needleman_wunsch_score(anchor, amplicon_2, match, mismatch, gap)
                 rc       == reverse_complement(amplicon_2)
                 score_rc == needleman_wunsch_score(anchor, rc, match, mismatch, gap)
             IN  IF score > score_rc
                 THEN [error |-> "none", amp |-> SplitOn(amp, NL)[1] \o <<NL>> \o rc \o <<NL>>]
                 ELSE [error |-> "none", amp |-> amp]

\* the body of the orientation loop with >= for >
OrientGe(anchor, amp) ==
    LET amplicon_2 == SeqLine(amp)
    IN  IF \E n \in 1..Len(amplicon_2) : amplicon_2[n] \notin Bases
        THEN [error |-> "KeyError", amp |-> <<>>]
        ELSE LET score    == needleman_wunsch_score(anchor, amplicon_2, match, mismatch, gap)
                 rc       == reverse_complement(amplicon_2)
                 score_rc == needleman_wunsch_score(anchor, rc, match, mismatch, gap)
             IN  IF score_rc >= score
                 THEN [error |-> "none", amp |-> SplitOn(amp, NL)[1] \o <<NL>> \o rc \o <<NL>>]
                 ELSE [error |-> "none", amp |-> amp]

\* the body of the orientation loop, lines 164-177: what is appended to
\* final_amplicons; base_complements[nuc] of another character raises KeyError
Orient(anchor, amp) ==
    LET amplicon_2 == SeqLine(amp)
    IN  IF \E n \in 1..Len(amplicon_2) : amplicon_2[n] \notin Bases
        THEN [error |-> "KeyError", amp |-> <<>>]
        ELSE LET score    == needleman_wunsch_score(anchor, amplicon_2, match, mismatch, gap)
                 rc       == reverse_complement(amplicon_2)
                 score_rc == needleman_wunsch_score(anchor, rc, match, mismatch, gap)
             IN  IF score_rc > score
                 THEN [error |-> "none", amp |-> SplitOn(amp, NL)[1] \o <<NL>> \o rc \o <<NL>>]
                 ELSE [error |-> "none", amp |-> amp]

\* anchor = amps_list[0].split('\n')[1]
Anchor == SeqLine(amps_list[1])

-----------------------------------------------------------------------------
(* main as a state machine: the loop over assemblies, the orientation loop *)
(* and the print loop                                                      *)

MaxAssemblies == 3    \* assemblies of a run over the small pool of results
MaxSeqLen     == 2    \* bases of an amplicon of a run of two assemblies

\* seqtk's output for one window: a header line and a sequence line
Fasta(name, seq) == <<">">> \o name \o <<NL>> \o seq \o <<NL>>

\* what ispcr returns for a template: nothing when no window was asked for,
\* else one record per window; a consensus may hold N
AmpliconTexts ==
    { <<>>,
      Fasta(<<"a">>, <<"A">>),
      Fasta(<<"b">>, <<"C">>),
      Fasta(<<"c">>, <<"T">>),
      Fasta(<<"d">>, <<"A", "N">>),
      Fasta(<<"e">>, <<"A", "C">>) \o Fasta(<<"f">>, <<"G", "T">>) }

AssemblyPool ==
    [exists : {TRUE}, amps : AmpliconTexts] \cup [exists : {FALSE}, amps : {<<>>}]

Runs ==
    SeqsUpTo(AssemblyPool, MaxAssemblies)
    \cup { << [exists |-> TRUE, amps |-> Fasta(<<"a">>, x)],
              [exists |-> TRUE, amps |-> Fasta(<<"b">>, y)] >> :
           x \in SeqsUpTo(Bases, MaxSeqLen), y \in SeqsUpTo(Bases, MaxSeqLen) }

Init ==
    /\ assemblies \in Runs
    /\ pc = "assemblies"
    /\ k = 1
    /\ amps_list = <<>>
    /\ final_amplicons = <<>>
    /\ printed = <<>>
    /\ blast_lines = <<>>
    /\ blast_output = <<>>
    /\ good_hits = <<>>
    /\ sorted_hits = <<>>
    /\ max_amp_size = DefaultMaxAmp
    /\ hit_pairs = <<>>
    /\ bed = <<>>

\* lines 106-111: one pass of the loop over assembly_files
CollectAssembly ==
    /\ pc = "assemblies"
    /\ k <= Len(assemblies)
    /\ IF ~assemblies[k].exists
       THEN /\ k' = k + 1
            /\ UNCHANGED <<pc, amps_list>>
       ELSE LET r == FirstRecord(assemblies[k].amps)
            IN  IF r.error # "none"
                THEN /\ pc' = r.error
                     /\ UNCHANGED <<k, amps_list>>
                ELSE /\ amps_list' = Append(amps_list, r.amp)
                     /\ k' = k + 1
                     /\ UNCHANGED pc
    /\ UNCHANGED <<blast_lines, blast_output, good_hits, sorted_hits, max_amp_size,
                   hit_pairs, bed, assemblies, final_amplicons, printed>>

\* lines 157-162: after the loop, exit if nothing was collected
CheckAmplicons ==
    /\ pc = "assemblies"
    /\ k > Len(assemblies)
    /\ pc' = IF amps_list = <<>> THEN "exit" ELSE "orient"
    /\ k' = 1
    /\ UNCHANGED <<blast_lines, blast_output, good_hits, sorted_hits, max_amp_size,
                   hit_pairs, bed, assemblies, amps_list, final_amplicons, printed>>

\* lines 163-177: one pass of the loop over amps_list
OrientAmplicon ==
    /\ pc = "orient"
    /\ k <= Len(amps_list)
    /\ LET r == Orient(Anchor, amps_list[k])
       IN  IF r.error # "none"
           THEN /\ pc' = r.error
                /\ UNCHANGED <<k, final_amplicons>>
           ELSE /\ final_amplicons' = Append(final_amplicons, r.amp)
                /\ k' = IF k = Len(amps_list) THEN 1 ELSE k + 1
                /\ pc' = IF k = Len(amps_list) THEN "print" ELSE "orient"
    /\ UNCHANGED <<blast_lines, blast_output, good_hits, sorted_hits, max_amp_size,
                   hit_pairs, bed, assemblies, amps_list, printed>>

\* lines 179-180: one pass of the loop over final_amplicons
PrintAmplicon ==
    /\ pc = "print"
    /\ k <= Len(final_amplicons)
    /\ printed' = Append(printed, final_amplicons[k])
    /\ k' = k + 1
    /\ pc' = IF k = Len(final_amplicons) THEN "done" ELSE "print"
    /\ UNCHANGED <<blast_lines, blast_output, good_hits, sorted_hits, max_amp_size,
                   hit_pairs, bed, assemblies, amps_list, final_amplicons>>

Next == CollectAssembly \/ CheckAmplicons \/ OrientAmplicon \/ PrintAmplicon

Spec == Init /\ [][Next]_vars

-----------------------------------------------------------------------------
(* Properties of ispcr, checked under SpecIspcr *)

\* the records of the report: the columns of its non-empty lines
IsRecord(line) == Len(line) > 0
Records == [n \in 1..Len(SelectSeq(blast_lines, IsRecord)) |->
               SplitWs(SelectSeq(blast_lines, IsRecord)[n])]

\* alignment_length == query_length, as integers
IsFullLength(cols) == int(cols[4]) = int(cols[NumFields])

Count(seq, x) == Cardinality({n \in 1..Len(seq) : seq[n] = x})

\* s is a rearrangement of t
IsPermutation(s, t) ==
    /\ Len(s) = Len(t)
    /\ \A n \in 1..Len(s) : Count(s, s[n]) = Count(t, s[n])

\* ascending by (subject_id as string, subject_start as integer)
IsAscending(hits) ==
    \A m, n \in 1..Len(hits) :
        m < n => \/ StrLess(hits[m][2], hits[n][2])
                 \/ hits[m][2] = hits[n][2] /\ int(hits[m][9]) <= int(hits[n][9])

\* C1: every pair returned by identify_paired_hits for a sorted hit list has
\* both hits on one contig, in different directions, and a window length
\* (trailing.subject_end - 1) - leading.subject_end <= max_amplicon_size.
C1_PairGeometry ==
    \A n \in 1..Len(hit_pairs) :
        LET leading  == hit_pairs[n][1]
            trailing == hit_pairs[n][2]
        IN  /\ leading[2] = trailing[2]
            /\ Dir(leading) # Dir(trailing)
            /\ (int(trailing[10]) - 1) - int(leading[10]) <= max_amp_size

\* C2: in every pair returned by identify_paired_hits the first element is
\* the forward hit and the second the reverse hit.
C2_ForwardHitFirst ==
    \A n \in 1..Len(hit_pairs) :
        Dir(hit_pairs[n][1]) = "fwd" /\ Dir(hit_pairs[n][2]) = "rev"

\* C3: for well-formed records, step_one returns exactly the records whose
\* alignment_length equals query_length, ascending by (subject_id as string,
\* subject_start as integer).
C3_FilterAndSort ==
    pc = "step_two" =>
        /\ IsPermutation(sorted_hits, SelectSeq(Records, IsFullLength))
        /\ IsAscending(sorted_hits)

\* a partial hit was dropped and the sort changed the order of the rest
C3_Witness ==
    /\ pc = "step_two"
    /\ Len(good_hits) < Len(Records)
    /\ Len(sorted_hits) >= 2
    /\ sorted_hits # good_hits

\* the sorted list is a forward hit followed by a reverse hit on the same
\* contig, and the forward hit ends within max_amplicon_size of the reverse
\* hit's start
ForwardThenReverse ==
    /\ Len(sorted_hits) = 2
    /\ sorted_hits[1][2] = sorted_hits[2][2]
    /\ int(sorted_hits[1][9]) < int(sorted_hits[1][10])
    /\ int(sorted_hits[2][9]) >= int(sorted_hits[2][10])
    /\ int(sorted_hits[1][10]) > int(sorted_hits[2][9]) - max_amp_size

\* the bed list holds, pair by pair and in pair order, the window
\* (leading.subject_id, leading.subject_end, trailing.subject_end - 1),
\* whatever its length
WindowsEmitted ==
    /\ Len(bed) = Len(hit_pairs)
    /\ \A n \in 1..Len(bed) :
          LET window == SplitOn(SubSeq(bed[n], 1, Len(bed[n]) - 1), TAB)
          IN  /\ bed[n][Len(bed[n])] = NL
              /\ Len(window) = 3
              /\ window[1] = hit_pairs[n][1][2]
              /\ window[2] = hit_pairs[n][1][10]
              /\ int(window[3]) = int(hit_pairs[n][2][10]) - 1

\* C4 as stated: a forward hit followed by a reverse hit within range always
\* gives exactly the pair (forward, reverse), and every pair's window is
\* emitted in pair order.
C4_AsStated ==
    pc = "seqtk" =>
        /\ ForwardThenReverse => hit_pairs = << <<sorted_hits[1], sorted_hits[2]>> >>
        /\ WindowsEmitted

\* C4, amended: when the forward hit starts strictly before the reverse hit,
\* the pairer returns exactly the pair (forward, reverse); every pair's window
\* (leading.subject_id, leading.subject_end, trailing.subject_end - 1) is
\* emitted in pair order, degenerate or not; forward 10..30 and reverse
\* 200..180 on C1 with max_amplicon_size 2000 give the window (C1, 30, 179).
C4_WindowOfForwardReversePair ==
    pc = "seqtk" =>
        /\ (ForwardThenReverse /\ int(sorted_hits[1][9]) < int(sorted_hits[2][9]))
              => hit_pairs = << <<sorted_hits[1], sorted_hits[2]>> >>
        /\ WindowsEmitted
        /\ (/\ sorted_hits = << SplitWs(HitLine(C1, 10, 30)), SplitWs(HitLine(C1, 200, 180)) >>
            /\ max_amp_size = DefaultMaxAmp)
              => bed = << <<"C", "1", TAB, "3", "0", TAB, "1", "7", "9", NL>> >>

\* the scenario has run: one pair, the window (C1, 30, 179)
C4_Witness ==
    /\ pc = "seqtk"
    /\ max_amp_size = DefaultMaxAmp
    /\ Len(sorted_hits) = 2
    /\ int(sorted_hits[1][9]) = 10 /\ int(sorted_hits[1][10]) = 30
    /\ int(sorted_hits[2][9]) = 200 /\ int(sorted_hits[2][10]) = 180
    /\ Len(hit_pairs) = 1
    /\ bed = << <<"C", "1", TAB, "3", "0", TAB, "1", "7", "9", NL>> >>

\* some non-empty line of the report has fewer than 13 columns
HasShortLine ==
    \E n \in 1..Len(blast_lines) :
        Len(blast_lines[n]) > 0 /\ Len(SplitWs(blast_lines[n])) < NumFields

\* C8 as stated: a line that is empty or has fewer than 13 columns is skipped
\* without failing, and the full-length records of the other lines are
\* returned.
C8_AsStated ==
    pc \in {"sorted", "IndexError"} =>
        /\ pc # "IndexError"
        /\ \A n \in 1..Len(blast_lines) :
              LET cols == SplitWs(blast_lines[n])
              IN  (Len(cols) >= NumFields /\ IsFullLength(cols))
                     => \E m \in 1..Len(good_hits) : good_hits[m] = cols

\* C8, amended: an empty line is skipped; filter_blast fails with IndexError
\* exactly when some non-empty line has fewer than 13 columns (a blank line
\* included), and otherwise returns the full-length records in input order.
C8_ShortLineFailsEmptyLineSkipped ==
    pc \in {"sorted", "IndexError"} =>
        /\ pc = "IndexError" <=> HasShortLine
        /\ pc # "IndexError" => good_hits = SelectSeq(Records, IsFullLength)

\* an empty line was skipped and the records around it were kept
C8_Witness ==
    /\ pc = "sorted"
    /\ \E n \in 1..Len(blast_lines) : Len(blast_lines[n]) = 0
    /\ Len(good_hits) >= 2

\* the scan of identify_paired_hits with the break replaced by continue
ScanWithoutBreak(hits, max) ==
    LET accepted == { c \in (1..Len(hits)) \X (1..Len(hits)) :
                        c[1] < c[2] /\ PairStep(hits[c[1]], hits[c[2]], max) \in {"append"} }
        before(c, d) == c[1] < d[1] \/ (c[1] = d[1] /\ c[2] < d[2])
        nth(n) == CHOOSE c \in accepted :
                      Cardinality({d \in accepted : before(d, c)}) = n - 1
    IN  [n \in 1..Cardinality(accepted) |-> <<hits[nth(n)[1]], hits[nth(n)[2]]>>]

\* C10: for a hit list sorted by step_one, the early exit of Case A misses no
\* pair: identify_paired_hits returns the pairs, in the order, of the same
\* scan that only skips the current j.
C10_BreakMissesNoPair ==
    pc = "step_three" => hit_pairs = ScanWithoutBreak(sorted_hits, max_amp_size)

\* the break was taken with hits of the same contig still to scan, one of
\* them in the opposite direction
C10_Witness ==
    /\ pc = "step_three"
    /\ \E i, j, l \in 1..Len(sorted_hits) :
          /\ i < j /\ j < l
          /\ \A m \in (i + 1)..(j - 1) :
                PairStep(sorted_hits[i], sorted_hits[m], max_amp_size) # "break"
          /\ PairStep(sorted_hits[i], sorted_hits[j], max_amp_size) = "break"
          /\ sorted_hits[l][2] = sorted_hits[i][2]
          /\ Dir(sorted_hits[l]) # Dir(sorted_hits[i])

-----------------------------------------------------------------------------
(* Properties of main, checked under Spec *)

ScoreFwd(amp) == needleman_wunsch_score(Anchor, SeqLine(amp), match, mismatch, gap)
ScoreRev(amp) ==
    needleman_wunsch_score(Anchor, reverse_complement(SeqLine(amp)), match, mismatch, gap)

IsValid(amp) == \A n \in 1..Len(SeqLine(amp)) : SeqLine(amp)[n] \in Bases

\* C5: an amplicon over {A,C,G,T} is replaced by its reverse complement only
\* when score_rev > score_fwd strictly; at equal scores it is emitted
\* unchanged, and the anchor is always emitted unchanged.
C5_StrictlyBetterOrUnchanged ==
    \A n \in 1..Len(final_amplicons) :
        LET amp == amps_list[n]
            out == final_amplicons[n]
        IN  /\ out # amp =>
                 /\ ScoreRev(amp) > ScoreFwd(amp)
                 /\ SeqLine(out) = reverse_complement(SeqLine(amp))
            /\ ScoreRev(amp) = ScoreFwd(amp) => out = amp
            /\ n = 1 => out = amp

\* a run in which one amplicon was reverse-complemented and another, whose
\* two scores tie although it differs from its reverse complement, was not
C5_Witness ==
    /\ pc = "done"
    /\ \E n \in 1..Len(final_amplicons) : final_amplicons[n] # amps_list[n]
    /\ \E n \in 1..Len(final_amplicons) :
          /\ ScoreRev(amps_list[n]) = ScoreFwd(amps_list[n])
          /\ reverse_complement(SeqLine(amps_list[n])) # SeqLine(amps_list[n])
          /\ final_amplicons[n] = amps_list[n]

\* the collection loop has gone past an assembly for which ispcr returned
\* no amplicon text
PastEmptyResult ==
    \E n \in 1..Len(assemblies) :
        /\ assemblies[n].exists
        /\ assemblies[n].amps = <<>>
        /\ (pc = "assemblies" => n < k)

WithAmplicon == {n \in 1..Len(assemblies) : assemblies[n].exists /\ assemblies[n].amps # <<>>}

\* C6: a template without amplicon text does not crash the loop over the
\* templates; the loop goes on, and the amplicons of the other templates are
\* collected and emitted.
C6_NoAmpliconIsNoCrash ==
    /\ pc # "IndexError"
    /\ (pc \notin {"assemblies", "IndexError"} /\ PastEmptyResult)
          => Len(amps_list) = Cardinality(WithAmplicon)
    /\ (pc = "done" /\ PastEmptyResult) => Len(printed) = Cardinality(WithAmplicon)

\* C7: an amplicon with a character outside {A,C,G,T} fails alone: the run
\* is not aborted, and every other amplicon is oriented and emitted.
C7_InvalidSequenceFailsAlone ==
    /\ pc # "KeyError"
    /\ pc = "done" =>
          \A n \in 1..Len(amps_list) :
              IsValid(amps_list[n]) =>
                  \E m \in 1..Len(printed) :
                      SplitOn(printed[m], NL)[1] = SplitOn(amps_list[n], NL)[1]

\* C9: the orientation decision applied to its own output, relative to the
\* same anchor, returns that output unchanged.
C9_OrientationIdempotent ==
    \A n \in 1..Len(final_amplicons) :
        Orient(Anchor, final_amplicons[n]) = [error |-> "none", amp |-> final_amplicons[n]]

\* an amplicon was reverse-complemented, so its output is the other strand
C9_Witness ==
    /\ pc = "print"
    /\ \E n \in 1..Len(final_amplicons) :
          /\ SeqLine(final_amplicons[n]) = reverse_complement(SeqLine(amps_list[n]))
          /\ SeqLine(final_amplicons[n]) # SeqLine(amps_list[n])
          /\ Len(SeqLine(amps_list[n])) = MaxSeqLen

====
